---------------------------- MODULE Spec2Model ----------------------------
(***************************************************************************)
(* ephemerad: the daemon that keeps a registry of script-backed            *)
(* components, reconciles it with a directory of instance files, and       *)
(* starts/stops each component through a per-component agent.              *)
(*                                                                         *)
(* Sources: src/ephemera.go (package ephemera: the meta Component) and     *)
(* src/ephemera_test.go lines 535-863 (package main of the daemon).        *)
(***************************************************************************)
EXTENDS Integers, Sequences, FiniteSets, TLC

(***************************************************************************)
(* Bounds of the model.                                                    *)
(***************************************************************************)
\* Activate/Deactivate calls the bus delivers over a run.
MaxCalls == 2
\* Filesystem notifications fsnotify delivers over a run.
MaxWrites == 2
\* Calls and notifications together over a run.
MaxInputs == 3

(***************************************************************************)
(* Meta components (ephemera.Component) as parsed from instance files.     *)
(***************************************************************************)
\* A Model of the bus: config, state and rpc commands (ephemera.go 309-315).
ModelX ==
    [name   |-> "v1",
     config |-> [get |-> "cfg-get", set |-> "", check |-> ""],
     state  |-> [get |-> ""],
     rpc    |-> [m |-> [x |-> ""]]]

\* The same Model with its only RPC operation renamed (command line empty).
ModelY ==
    [name   |-> "v1",
     config |-> [get |-> "cfg-get", set |-> "", check |-> ""],
     state  |-> [get |-> ""],
     rpc    |-> [m |-> [y |-> ""]]]

\* Component "a" with start and stop scripts.
MetaA1 == [name |-> "a", start |-> "a-start", stop |-> "a-stop", models |-> [v1 |-> ModelX]]
\* Component "a" after its RPC operation was renamed in the instance file.
MetaA2 == [name |-> "a", start |-> "a-start", stop |-> "a-stop", models |-> [v1 |-> ModelY]]
\* Component "a" after its start command was edited.
MetaA3 == [name |-> "a", start |-> "a-start -v", stop |-> "a-stop", models |-> [v1 |-> ModelX]]
\* Component "b": no start/stop script and no model.
MetaB1 == [name |-> "b", start |-> "", stop |-> "", models |-> <<>>]

Metas == {MetaA1, MetaA2, MetaA3, MetaB1}
Names == {"a", "b"}
\* A fixed order on the names, used only to number fresh RuntimeComponents.
NameSeq == <<"a", "b">>

\* What a directory entry can hold: nothing, an unparsable file, or a definition.
NoFile == [kind |-> "nofile"]
BadFile == [kind |-> "badfile"]

\* The instance directory, in the name order ioutil.ReadDir returns.
Files == {1, 2}

\* What each entry may hold: the first file defines component "a"; the
\* second defines "b", or is a second definition of "a".
Contents(f) ==
    IF f = 1 THEN {NoFile, BadFile, MetaA1, MetaA2, MetaA3}
             ELSE {NoFile, MetaB1, MetaA3}

\* Concurrent bus calls (each vci call runs on its own goroutine).
Clients == {"c1", "c2"}
\* The goroutine draining watcher.Events, which also runs the atom's watch.
Watcher == "watcher"

\* The directory main() finds when it starts: one file per component.
InitialDir == <<MetaA1, MetaB1>>

\* The directories the daemon may find when it starts: every file parses, or
\* the first one is malformed.
InitialDirs == {InitialDir, <<BadFile, MetaB1>>}

\* Operations an fsnotify event can carry (a bit mask in the source).
ChmodOnly == {"Chmod"}
EventOps == {{"Write"}, {"Write", "Chmod"}}

(***************************************************************************)
(* Structural equality as the code computes it.                            *)
(***************************************************************************)
\* Go map lookup: the zero value "" when the key is missing.
MapGet(mp, k) == IF k \in DOMAIN mp THEN mp[k] ELSE ""

configEqual(c, oc) == c.get = oc.get /\ c.set = oc.set /\ c.check = oc.check

stateEqual(c, os) == c.get = os.get

rpcEqual(r, or) ==
    /\ Cardinality(DOMAIN or) = Cardinality(DOMAIN r)
    /\ \A mod \in DOMAIN r :
          /\ mod \in DOMAIN or
          /\ \A name \in DOMAIN r[mod] : MapGet(or[mod], name) = r[mod][name]
    /\ \A mod \in DOMAIN or :
          /\ mod \in DOMAIN r
          /\ \A name \in DOMAIN or[mod] : MapGet(r[mod], name) = or[mod][name]

ModelEqual(c, om) ==
    /\ c.name = om.name
    /\ configEqual(c.config, om.config)
    /\ stateEqual(c.state, om.state)
    /\ rpcEqual(c.rpc, om.rpc)

equalModels(c, other) ==
    /\ Cardinality(DOMAIN c.models) = Cardinality(DOMAIN other.models)
    /\ \A k \in DOMAIN c.models :
          k \in DOMAIN other.models /\ ModelEqual(c.models[k], other.models[k])
    /\ \A k \in DOMAIN other.models :
          k \in DOMAIN c.models /\ ModelEqual(other.models[k], c.models[k])

ComponentEqual(c, oc) ==
    /\ c.name = oc.name
    /\ c.start = oc.start
    /\ c.stop = oc.stop
    /\ equalModels(c, oc)

(***************************************************************************)
(* Script invocation of the meta Component and the bus calls.              *)
(***************************************************************************)
\* Component.Start: "none" = empty command, nil returned without a process;
\* "ok" = process spawned and exited 0; "fail" = spawn failure or nonzero
\* exit, unpackError's error returned.
ComponentStart(m) == IF m.start = "" THEN {"none"} ELSE {"ok", "fail"}

\* Component.Stop, likewise.
ComponentStop(m) == IF m.stop = "" THEN {"none"} ELSE {"ok", "fail"}

\* vci.Component.Run / Stop: the bus accepts or refuses, as it decides.
BusResults == {"ok", "fail"}

\* Mutant of RunFn: the test of isRunning is missing.
RunFnNoGuard(m, isRunning) ==
    {[scr |-> s, bus |-> b,
      err |-> IF b = "ok" THEN "nil" ELSE "buserr",
      after |-> (b = "ok")] : s \in ComponentStart(m), b \in BusResults}

\* Mutant of RunFn: the function returns true whatever vci.Run returned.
RunFnIgnoresBusError(m, isRunning) ==
    IF isRunning
    THEN {[scr |-> "none", bus |-> "none", err |-> "nil", after |-> isRunning]}
    ELSE {[scr |-> s, bus |-> b,
           err |-> IF b = "ok" THEN "nil" ELSE "buserr",
           after |-> TRUE] : s \in ComponentStart(m), b \in BusResults}

\* The function component.Run sends to the agent: what it does to the start
\* script and the bus, the error it sends back and the value it returns to
\* the agent, given the agent's value isRunning.
RunFn(m, isRunning) ==
    IF isRunning
    THEN {[scr |-> "none", bus |-> "none", err |-> "nil", after |-> isRunning]}
    ELSE {[scr |-> s, bus |-> b,
           err |-> IF b = "ok" THEN "nil" ELSE "buserr",
           after |-> (b = "ok")] : s \in ComponentStart(m), b \in BusResults}

\* Mutant of StopFn: the value returned after a successful stop is true.
StopFnStaysRunning(m, isRunning) ==
    IF ~isRunning
    THEN {[scr |-> "none", bus |-> "none", err |-> "nil", after |-> isRunning]}
    ELSE {[scr |-> s, bus |-> b,
           err |-> IF b = "ok" THEN "nil" ELSE "buserr",
           after |-> TRUE] : s \in ComponentStop(m), b \in BusResults}

\* The function component.Stop sends to the agent.
StopFn(m, isRunning) ==
    IF ~isRunning
    THEN {[scr |-> "none", bus |-> "none", err |-> "nil", after |-> isRunning]}
    ELSE {[scr |-> s, bus |-> b,
           err |-> IF b = "ok" THEN "nil" ELSE "buserr",
           after |-> ~(b = "ok")] : s \in ComponentStop(m), b \in BusResults}

(***************************************************************************)
(* The state.                                                              *)
(***************************************************************************)
VARIABLES
    fs,         \* the instance directory: file -> content
    events,     \* watcher.Events: the fsnotify events not yet handled
    managed,    \* managedComponents (the atom): name -> RuntimeComponent
    meta,       \* per RuntimeComponent: component.meta
    running,    \* per RuntimeComponent: the value of the agent component.started
    registered, \* per RuntimeComponent: vci Run succeeded, no vci Stop succeeded since
    mailbox,    \* per RuntimeComponent: functions sent to the agent, in sending order
    active,     \* per RuntimeComponent: functions the agent is executing
    last,       \* per RuntimeComponent: the last function the agent completed
    call,       \* per client: the Activate/Deactivate call it is in
    wpc,        \* the watcher goroutine: "idle", "stop" (about to call act.op) or "wait"
    actions,    \* syncComponents: the actions not yet run
    passStops,  \* RuntimeComponents whose Stop the running syncComponents has called
    ncalls,     \* calls delivered so far
    nwrites,    \* filesystem notifications delivered so far
    inv         \* package ephemera: the last operation applied and what it did

compVars == <<meta, running, registered, mailbox, active, last>>
passVars == <<wpc, actions, passStops>>
envVars == <<ncalls, nwrites>>
vars == <<fs, events, managed, meta, running, registered, mailbox, active, last,
          call, wpc, actions, passStops, ncalls, nwrites, inv>>

Comps == 1..Len(meta)

NoReq == [op |-> "none", from |-> "none", was |-> FALSE, scr |-> "none",
          err |-> "nil", after |-> FALSE]

IdleCall == [pc |-> "idle", op |-> "none", name |-> "", comp |-> 0, res |-> "none"]

\* No operation of package ephemera has been applied.
NoInv == [op |-> "none"]

(***************************************************************************)
(* The registry: scanning the directory and building the next snapshot.    *)
(***************************************************************************)
\* hashmap Assoc.
\* Mutant of Assoc: a key that is present keeps its value.
AssocKeepsFirst(cs, k, v) ==
    [x \in (DOMAIN cs) \cup {k} |-> IF x = k /\ k \notin DOMAIN cs THEN v ELSE cs[x]]

Assoc(cs, k, v) == [x \in (DOMAIN cs) \cup {k} |-> IF x = k THEN v ELSE cs[x]]

\* The loop of readAllComponents over the first i directory entries: the
\* meta Component each name is associated with.
RECURSIVE readFiles(_, _)
readFiles(dir, i) ==
    IF i = 0 THEN <<>>
    ELSE LET cs == readFiles(dir, i - 1) IN
         IF dir[i] = NoFile THEN cs
         ELSE IF dir[i] = BadFile THEN cs
         ELSE Assoc(cs, dir[i].name, dir[i])

\* Mutant of readAllComponents: a file that does not parse ends the scan
\* with an empty map.
readAllComponentsAbortsOnBad(dir) ==
    IF \E f \in Files : dir[f] = BadFile
    THEN <<>>
    ELSE readFiles(dir, Cardinality(Files))

readAllComponents(dir) == readFiles(dir, Cardinality(Files))

\* Mutant of Migrates: the metas are compared as pointers, and a freshly
\* parsed meta is never the old one.
MigratesByPointer(old, metaOf, scanned, n) == FALSE

\* The test of swapper's Range callback: the name is in old and the metas
\* are Equal, so the old RuntimeComponent replaces the fresh one.
Migrates(old, metaOf, scanned, n) ==
    n \in DOMAIN old /\ ComponentEqual(scanned[n], metaOf[old[n]])

\* The names for which the swapper keeps the freshly built RuntimeComponent.
FreshNames(old, metaOf, scanned) ==
    {n \in DOMAIN scanned : ~Migrates(old, metaOf, scanned, n)}

FreshSeq(old, metaOf, scanned) ==
    SelectSeq(NameSeq, LAMBDA n : n \in FreshNames(old, metaOf, scanned))

\* newComponent: the RuntimeComponents appended for the fresh names.
IndexOf(seq, x) == CHOOSE i \in 1..Len(seq) : seq[i] = x

\* Mutant of swapper: the entries of old whose name the scan lacks are kept,
\* a mixture of the old and the new snapshot.
swapperKeepsOld(old, metaOf, scanned) ==
    [n \in (DOMAIN scanned) \cup (DOMAIN old) |->
        IF n \notin DOMAIN scanned THEN old[n]
        ELSE IF Migrates(old, metaOf, scanned, n)
        THEN old[n]
        ELSE Len(metaOf) + IndexOf(FreshSeq(old, metaOf, scanned), n)]

\* swapper: the snapshot that replaces old.
swapper(old, metaOf, scanned) ==
    [n \in DOMAIN scanned |->
        IF Migrates(old, metaOf, scanned, n)
        THEN old[n]
        ELSE Len(metaOf) + IndexOf(FreshSeq(old, metaOf, scanned), n)]

\* All orders in which a hashmap Range may visit a set of entries.
Orders(S) ==
    {s \in [1..Cardinality(S) -> S] : \A i, j \in DOMAIN s : i # j => s[i] # s[j]}

\* Mutant of syncRemoved: the test new.Contains(name) is missing.
syncRemovedNoContains(old, new) ==
    {[name |-> n, comp |-> old[n]] : n \in DOMAIN old}

\* syncComponents, first loop: the old entries whose name new lacks.
syncRemoved(old, new) ==
    {[name |-> n, comp |-> old[n]] : n \in {x \in DOMAIN old : x \notin DOMAIN new}}

\* Mutant of syncChanged: the Equal test is inverted.
syncChangedInverted(old, new, metaOf) ==
    {[name |-> n, comp |-> old[n]] :
        n \in {x \in DOMAIN new :
                 x \in DOMAIN old /\ ComponentEqual(metaOf[new[x]], metaOf[old[x]])}}

\* syncComponents, second loop: the old entries whose meta differs from new's.
syncChanged(old, new, metaOf) ==
    {[name |-> n, comp |-> old[n]] :
        n \in {x \in DOMAIN new :
                 x \in DOMAIN old /\ ~ComponentEqual(metaOf[new[x]], metaOf[old[x]])}}

\* syncComponents: the vectors of actions it may build.
syncComponents(old, new, metaOf) ==
    {p \o q : p \in Orders(syncRemoved(old, new)),
              q \in Orders(syncChanged(old, new, metaOf))}

(***************************************************************************)
(* The agent of a RuntimeComponent (component.started).                    *)
(***************************************************************************)
\* The agent runs one sent function at a time.
AgentIdle(executing) == executing = {}

\* Mutant of NextIndex: the agent takes the function sent last.
NextIndexNewest(queue) == Len(queue)

\* The agent takes the functions in the order they were sent.
NextIndex(queue) == 1

\* The value the agent hands to the function it runs: its current value.
IsRunningArg(value) == value

RemoveAt(queue, i) == SubSeq(queue, 1, i - 1) \o SubSeq(queue, i + 1, Len(queue))

Origin(from) == IF from = Watcher THEN "watcher" ELSE "client"

\* agent.Send as component.Run and component.Stop use it.
Send(c, from, op) ==
    mailbox' = [mailbox EXCEPT ![c] = Append(@, [from |-> from, op |-> op])]

(***************************************************************************)
(* Initial state: main() scans the directory once; nothing is started.     *)
(***************************************************************************)
Init ==
    /\ fs \in InitialDirs
    /\ events = <<>>
    /\ LET scanned == readAllComponents(fs)
           fseq == FreshSeq(<<>>, <<>>, scanned)
       IN /\ managed = swapper(<<>>, <<>>, scanned)
          /\ meta = [i \in 1..Len(fseq) |-> scanned[fseq[i]]]
          /\ running = [i \in 1..Len(fseq) |-> FALSE]
          /\ registered = [i \in 1..Len(fseq) |-> FALSE]
          /\ mailbox = [i \in 1..Len(fseq) |-> <<>>]
          /\ active = [i \in 1..Len(fseq) |-> {}]
          /\ last = [i \in 1..Len(fseq) |-> NoReq]
    /\ call = [c \in Clients |-> IdleCall]
    /\ wpc = "idle"
    /\ actions = <<>>
    /\ passStops = <<>>
    /\ ncalls = 0
    /\ nwrites = 0
    /\ inv = NoInv

(***************************************************************************)
(* The environment: the instance directory changes.                        *)
(***************************************************************************)
\* A file is created, rewritten (also with the bytes it had) or removed;
\* fsnotify reports it.
FsWrite(f, content, ops) ==
    /\ fs' = [fs EXCEPT ![f] = content]
    /\ events' = Append(events, ops)
    /\ nwrites < MaxWrites
    /\ ncalls + nwrites < MaxInputs
    /\ nwrites' = nwrites + 1
    /\ UNCHANGED ncalls
    /\ UNCHANGED <<managed, compVars, call, passVars>>
    /\ UNCHANGED inv

\* The permissions of a file change; fsnotify reports a Chmod.
FsChmod(f) ==
    /\ fs[f] # NoFile
    /\ events' = Append(events, ChmodOnly)
    /\ nwrites < MaxWrites
    /\ ncalls + nwrites < MaxInputs
    /\ nwrites' = nwrites + 1
    /\ UNCHANGED ncalls
    /\ UNCHANGED <<fs, managed, compVars, call, passVars>>
    /\ UNCHANGED inv

(***************************************************************************)
(* The watcher goroutine: handleEvent, Swap(swapper), syncComponents.      *)
(***************************************************************************)
\* handleEvent's first case: the event carries fsnotify.Chmod.
IsChmod(ops) == "Chmod" \in ops

handleEventChmod ==
    /\ wpc = "idle"
    /\ events # <<>>
    /\ IsChmod(Head(events))
    /\ events' = Tail(events)
    /\ UNCHANGED <<fs, managed, compVars, call, passVars, envVars>>
    /\ UNCHANGED inv

\* handleEvent's default case: managedComponents.Swap(swapper), after which
\* the atom calls the watch syncComponents(old, new), which builds its
\* vector of actions.
handleEventSwap ==
    /\ wpc = "idle"
    /\ events # <<>>
    /\ ~IsChmod(Head(events))
    /\ LET scanned == readAllComponents(fs)
           fseq == FreshSeq(managed, meta, scanned)
           k == Len(fseq)
           new == swapper(managed, meta, scanned)
           newMeta == meta \o [i \in 1..k |-> scanned[fseq[i]]]
       IN /\ meta' = newMeta
          /\ running' = running \o [i \in 1..k |-> FALSE]
          /\ registered' = registered \o [i \in 1..k |-> FALSE]
          /\ mailbox' = mailbox \o [i \in 1..k |-> <<>>]
          /\ active' = active \o [i \in 1..k |-> {}]
          /\ last' = last \o [i \in 1..k |-> NoReq]
          /\ managed' = new
          /\ passStops' = <<>>
          /\ \E acts \in syncComponents(managed, new, newMeta) :
                /\ actions' = acts
                /\ wpc' = IF acts = <<>> THEN "idle" ELSE "stop"
    /\ events' = Tail(events)
    /\ UNCHANGED <<fs, call, envVars>>
    /\ UNCHANGED inv

\* Mutant of syncStop: the action's op is component.Run.
syncStopRuns ==
    /\ wpc = "stop"
    /\ Send(Head(actions).comp, Watcher, "Run")
    /\ passStops' = Append(passStops, Head(actions).comp)
    /\ wpc' = "wait"
    /\ UNCHANGED <<fs, events, managed, meta, running, registered, active, last,
                   call, actions, envVars>>
    /\ UNCHANGED inv

\* syncComponents' last loop: act.op(), that is component.Stop of the old
\* RuntimeComponent, sends its function to the agent and waits for the reply.
syncStop ==
    /\ wpc = "stop"
    /\ Send(Head(actions).comp, Watcher, "Stop")
    /\ passStops' = Append(passStops, Head(actions).comp)
    /\ wpc' = "wait"
    /\ UNCHANGED <<fs, events, managed, meta, running, registered, active, last,
                   call, actions, envVars>>
    /\ UNCHANGED inv

(***************************************************************************)
(* The bus dispatcher: rpc.Activate and rpc.Deactivate.                    *)
(***************************************************************************)
\* cs.Find(name) on the snapshot read by Deref.
Find(cs, name) == name \in DOMAIN cs

\* Mutant of Lookup: a name that is not found is answered with success.
LookupNotFoundOk(c, rpcName, name) ==
    /\ call[c].pc = "idle"
    /\ IF Find(managed, name)
       THEN call' = [call EXCEPT ![c] = [pc |-> "found", op |-> rpcName,
                       name |-> name, comp |-> managed[name], res |-> "none"]]
       ELSE call' = [call EXCEPT ![c] = [pc |-> "idle", op |-> "none",
                       name |-> name, comp |-> 0, res |-> "ok"]]
    /\ ncalls' = ncalls + 1
    /\ UNCHANGED <<fs, events, managed, compVars, passVars, nwrites>>
    /\ UNCHANGED inv

\* The lookup of Activate (op = "Run") or Deactivate (op = "Stop"): Deref the
\* atom and Find the name; not found returns the error at once.
Lookup(c, rpcName, name) ==
    /\ call[c].pc = "idle"
    /\ IF Find(managed, name)
       THEN call' = [call EXCEPT ![c] = [pc |-> "found", op |-> rpcName,
                       name |-> name, comp |-> managed[name], res |-> "none"]]
       ELSE call' = [call EXCEPT ![c] = [pc |-> "idle", op |-> "none",
                       name |-> name, comp |-> 0, res |-> "notfound"]]
    /\ ncalls' = ncalls + 1
    /\ UNCHANGED <<fs, events, managed, compVars, passVars, nwrites>>
    /\ UNCHANGED inv

\* rpc.Activate up to its call of component.Run.
Activate(c, name) ==
    /\ ncalls < MaxCalls
    /\ ncalls + nwrites < MaxInputs
    /\ Lookup(c, "Activate", name)

\* rpc.Deactivate up to its call of component.Stop.
Deactivate(c, name) ==
    /\ ncalls < MaxCalls
    /\ ncalls + nwrites < MaxInputs
    /\ Lookup(c, "Deactivate", name)

\* component.Run / component.Stop called by the dispatcher: Send, then wait.
CallSend(c) ==
    /\ call[c].pc = "found"
    /\ Send(call[c].comp, c, IF call[c].op = "Activate" THEN "Run" ELSE "Stop")
    /\ call' = [call EXCEPT ![c].pc = "wait"]
    /\ UNCHANGED <<fs, events, managed, meta, running, registered, active, last,
                   passVars, envVars>>
    /\ UNCHANGED inv

(***************************************************************************)
(* The agent goroutine of each RuntimeComponent.                           *)
(***************************************************************************)
\* The agent takes the next sent function and runs its body up to the
\* deferred send of err: the start/stop script and the bus call happen here.
AgentExec(id) ==
    /\ mailbox[id] # <<>>
    /\ AgentIdle(active[id])
    /\ LET i == NextIndex(mailbox[id])
           req == mailbox[id][i]
           isRunning == IsRunningArg(running[id])
       IN \E o \in (IF req.op = "Run" THEN RunFn(meta[id], isRunning)
                                       ELSE StopFn(meta[id], isRunning)) :
            /\ mailbox' = [mailbox EXCEPT ![id] = RemoveAt(@, i)]
            /\ registered' = [registered EXCEPT ![id] =
                                 IF o.bus = "ok" THEN req.op = "Run" ELSE @]
            /\ active' = [active EXCEPT ![id] = @ \cup
                  {[from |-> req.from, op |-> req.op, was |-> isRunning,
                    scr |-> o.scr, bus |-> o.bus, err |-> o.err,
                    after |-> o.after, ahead |-> i - 1]}]
    /\ UNCHANGED <<fs, events, managed, meta, running, last, call, passVars, envVars>>
    /\ UNCHANGED inv

\* Mutant of AgentDone: an error returned to syncComponents ends its loop.
AgentDoneAbortsPass(id) ==
    \E r \in active[id] :
        /\ active' = [active EXCEPT ![id] = @ \ {r}]
        /\ running' = [running EXCEPT ![id] = r.after]
        /\ last' = [last EXCEPT ![id] =
              [op |-> r.op, from |-> Origin(r.from), was |-> r.was, scr |-> r.scr,
               err |-> r.err, after |-> r.after]]
        /\ IF r.from = Watcher
           THEN LET rest == IF r.err = "nil" THEN Tail(actions) ELSE <<>> IN
                /\ actions' = rest
                /\ wpc' = IF rest = <<>> THEN "idle" ELSE "stop"
                /\ passStops' = IF rest = <<>> THEN <<>> ELSE passStops
                /\ UNCHANGED call
           ELSE /\ call' = [call EXCEPT ![r.from] =
                              [IdleCall EXCEPT !.res = IF r.err = "nil" THEN "ok" ELSE r.err]]
                /\ UNCHANGED <<actions, wpc, passStops>>
        /\ UNCHANGED <<fs, events, managed, meta, registered, mailbox, envVars>>
        /\ UNCHANGED inv

\* Mutant of AgentDone: the function returns without sending on ch.
AgentDoneNoReply(id) ==
    \E r \in active[id] :
        /\ active' = [active EXCEPT ![id] = @ \ {r}]
        /\ running' = [running EXCEPT ![id] = r.after]
        /\ last' = [last EXCEPT ![id] =
              [op |-> r.op, from |-> Origin(r.from), was |-> r.was, scr |-> r.scr,
               err |-> r.err, after |-> r.after]]
        /\ UNCHANGED <<call, actions, wpc, passStops>>
        /\ UNCHANGED <<fs, events, managed, meta, registered, mailbox, envVars>>
        /\ UNCHANGED inv

\* The deferred ch <- err meets the caller's <-ch, so the caller gets its
\* reply, and the function returns, so the agent stores the returned value.
\* Nothing reads the agent's value between the two (Running is never
\* called), so they are one step.
AgentDone(id) ==
    \E r \in active[id] :
        /\ active' = [active EXCEPT ![id] = @ \ {r}]
        /\ running' = [running EXCEPT ![id] = r.after]
        /\ last' = [last EXCEPT ![id] =
              [op |-> r.op, from |-> Origin(r.from), was |-> r.was, scr |-> r.scr,
               err |-> r.err, after |-> r.after]]
        /\ IF r.from = Watcher
           THEN /\ actions' = Tail(actions)
                /\ wpc' = IF Tail(actions) = <<>> THEN "idle" ELSE "stop"
                /\ passStops' = IF Tail(actions) = <<>> THEN <<>> ELSE passStops
                /\ UNCHANGED call
           ELSE /\ call' = [call EXCEPT ![r.from] =
                              [IdleCall EXCEPT !.res = IF r.err = "nil" THEN "ok" ELSE r.err]]
                /\ UNCHANGED <<actions, wpc, passStops>>
        /\ UNCHANGED <<fs, events, managed, meta, registered, mailbox, envVars>>
        /\ UNCHANGED inv

(***************************************************************************)
(* The specification.                                                      *)
(***************************************************************************)
Next ==
    \/ \E f \in Files, ops \in EventOps :
          \E content \in Contents(f) : FsWrite(f, content, ops)
    \/ \E f \in Files : FsChmod(f)
    \/ handleEventChmod
    \/ handleEventSwap
    \/ syncStop
    \/ \E c \in Clients, name \in Names : Activate(c, name)
    \/ \E c \in Clients, name \in Names : Deactivate(c, name)
    \/ \E c \in Clients : CallSend(c)
    \/ \E id \in Comps : AgentExec(id)
    \/ \E id \in Comps : AgentDone(id)

Spec == Init /\ [][Next]_vars

\* Scheduling: every goroutine that can take a step eventually takes one.
\* The watcher goroutine handles a delivered event and goes on with the pass
\* it started; a dispatcher call that found its component goes on to Send;
\* the agent goroutines take the functions sent to them, and the scripts and
\* bus calls they run terminate.  Nothing obliges the environment to write
\* files or the bus to deliver calls.
\* Each of these steps, once it can be taken, can be taken until it is
\* taken, so it is enough that the program's steps together are not
\* postponed for ever.
Progress ==
    \/ handleEventChmod
    \/ handleEventSwap
    \/ syncStop
    \/ \E c \in Clients : CallSend(c)
    \/ \E id \in Comps : AgentExec(id)
    \/ \E id \in Comps : AgentDone(id)

Fairness == WF_vars(Progress)

\* The directory changes of the runs in which progress is examined: the
\* file of "a" is removed, rewritten with another start command, or has its
\* mode changed.
LiveFile == 1
LiveContents == {NoFile, MetaA3}

NextLive ==
    \/ \E content \in LiveContents : FsWrite(LiveFile, content, {"Write"})
    \/ FsChmod(LiveFile)
    \/ handleEventChmod
    \/ handleEventSwap
    \/ syncStop
    \/ \E c \in Clients, name \in Names : Activate(c, name)
    \/ \E c \in Clients, name \in Names : Deactivate(c, name)
    \/ \E c \in Clients : CallSend(c)
    \/ \E id \in Comps : AgentExec(id)
    \/ \E id \in Comps : AgentDone(id)

SpecLive == Init /\ [][NextLive]_vars /\ Fairness

(***************************************************************************)
(* Package ephemera: the operations of a meta Component and its Models,    *)
(* each running the command line the instance file gives for it.           *)
(***************************************************************************)
\* Command lines of an instance file; "" is an operation that is not set.
Commands == {"", "cmd"}
ModelNames == {"v1", "v2"}
\* Request payloads the bus hands to Set, Check and an RPC.
Payloads == {"", "{}"}
\* Call metadata the bus has for an RPC.
Metadata == {"{\"user\":\"u\"}"}

\* What a command does once exec runs it: whether it could be spawned, its
\* exit status, and what it wrote to stdout and stderr before exiting.
Behaviours ==
    {b \in [exit : {"zero", "nonzero", "nospawn"},
            stdout : {"", "out"},
            stderr : {"", "text", "mgmt-json"}] :
        b.exit = "nospawn" => (b.stdout = "" /\ b.stderr = "")}

\* The receivers: config, state and rpc structs as configNew, stateNew and
\* rpcNew fill them.
Configs ==
    [compName : Names, modelName : ModelNames,
     get : Commands, set : Commands, check : Commands]
States == [compName : Names, modelName : ModelNames, get : Commands]
Rpcs ==
    {[compName |-> c, modelName |-> m, modules |-> [m1 |-> [x |-> k, y |-> "cmd"]]] :
        c \in Names, m \in ModelNames, k \in Commands}

\* The nil error.
NilErr == [type |-> "nil", text |-> ""]

\* Mutant of unpackError: an empty stderr gives no error.
unpackErrorNilOnEmpty(stdErr) ==
    IF stdErr = "mgmt-json"
    THEN [type |-> "MgmtError", text |-> stdErr]
    ELSE IF stdErr = ""
    THEN NilErr
    ELSE [type |-> "ExecError", text |-> stdErr]

\* unpackError: json.Unmarshal of stderr into a MgmtError; when that fails,
\* mgmterror.NewExecError(nil, stderr).
unpackError(stdErr) ==
    IF stdErr = "mgmt-json"
    THEN [type |-> "MgmtError", text |-> stdErr]
    ELSE [type |-> "ExecError", text |-> stdErr]

\* Mutant of genEnvironment: the model name is set from the component name.
genEnvironmentCompAsModel(compName, modelName, operation) ==
    [VCI_COMPONENT_NAME |-> compName,
     VCI_MODEL_NAME |-> compName,
     EPHEMERA_MESSAGE |-> operation]

genEnvironment(compName, modelName, operation) ==
    [VCI_COMPONENT_NAME |-> compName,
     VCI_MODEL_NAME |-> modelName,
     EPHEMERA_MESSAGE |-> operation]

\* strings.Join(parts, "/") of the three parts of an RPC label.
Join3(a, b, c) == a \o "/" \o b \o "/" \o c

\* cmd.Stdin left nil: the process reads the null device.
NoStdin == "/dev/null"

\* No command was built (the operation returned before exec.Command).
NoProc ==
    [cmd |-> "", env |-> <<>>, stdin |-> NoStdin, spawned |-> FALSE,
     exit |-> "notrun", out |-> "", stderr |-> ""]

\* exec.Command(args[0], args[1:]...) and cmd.Output(): an empty command
\* line names no program and fails without a process.
cmdOutput(cmdline, env, stdin, b) ==
    IF cmdline = ""
    THEN [cmd |-> cmdline, env |-> env, stdin |-> stdin, spawned |-> FALSE,
          exit |-> "nospawn", out |-> "", stderr |-> ""]
    ELSE [cmd |-> cmdline, env |-> env, stdin |-> stdin,
          spawned |-> (b.exit # "nospawn"),
          exit |-> b.exit, out |-> b.stdout, stderr |-> b.stderr]

\* err != nil after cmd.Output().
Failed(p) == p.exit # "zero"

\* What an operation gives back: the process it ran, the payload and error
\* it returns, and the error it only logs.
Returns(p, payload, err, logged) ==
    [proc |-> p, payload |-> payload, err |-> err, logged |-> logged]

\* Mutant of configGet: what the failed script wrote to stdout is returned.
configGetKeepsOutput(c, b) ==
    IF c.get = ""
    THEN Returns(NoProc, "", NilErr, NilErr)
    ELSE LET p == cmdOutput(c.get,
                    genEnvironment(c.compName, c.modelName, "Config/Get"), NoStdin, b)
         IN IF Failed(p)
            THEN Returns(p, p.out, NilErr, unpackError(p.stderr))
            ELSE Returns(p, p.out, NilErr, NilErr)

\* config.Get: returns a payload only.
configGet(c, b) ==
    IF c.get = ""
    THEN Returns(NoProc, "", NilErr, NilErr)
    ELSE LET p == cmdOutput(c.get,
                    genEnvironment(c.compName, c.modelName, "Config/Get"), NoStdin, b)
         IN IF Failed(p)
            THEN Returns(p, "", NilErr, unpackError(p.stderr))
            ELSE Returns(p, p.out, NilErr, NilErr)

\* Mutant of configSet: the test for an empty command line is missing.
configSetNoShortCircuit(c, in, b) ==
    LET p == cmdOutput(c.set,
               genEnvironment(c.compName, c.modelName, "Config/Set"), in, b)
    IN IF Failed(p)
       THEN Returns(p, "", unpackError(p.stderr), unpackError(p.stderr))
       ELSE Returns(p, "", NilErr, NilErr)

\* config.Set: returns an error only.
configSet(c, in, b) ==
    IF c.set = ""
    THEN Returns(NoProc, "", NilErr, NilErr)
    ELSE LET p == cmdOutput(c.set,
                    genEnvironment(c.compName, c.modelName, "Config/Set"), in, b)
         IN IF Failed(p)
            THEN Returns(p, "", unpackError(p.stderr), unpackError(p.stderr))
            ELSE Returns(p, "", NilErr, NilErr)

\* config.Check: returns an error only.
configCheck(c, in, b) ==
    IF c.check = ""
    THEN Returns(NoProc, "", NilErr, NilErr)
    ELSE LET p == cmdOutput(c.check,
                    genEnvironment(c.compName, c.modelName, "Config/Check"), in, b)
         IN IF Failed(p)
            THEN Returns(p, "", unpackError(p.stderr), unpackError(p.stderr))
            ELSE Returns(p, "", NilErr, NilErr)

\* state.Get: returns a payload only.
stateGet(c, b) ==
    IF c.get = ""
    THEN Returns(NoProc, "", NilErr, NilErr)
    ELSE LET p == cmdOutput(c.get,
                    genEnvironment(c.compName, c.modelName, "State/Get"), NoStdin, b)
         IN IF Failed(p)
            THEN Returns(p, "", NilErr, unpackError(p.stderr))
            ELSE Returns(p, p.out, NilErr, NilErr)

\* The handler rpc.genRpc(module, name, rpc) returns, applied to a request
\* payload: func(in encodedString) (encodedString, error).  It has no
\* parameter for the call metadata and no test for an empty command line.
genRpc(r, module, name, rpc, in, b) ==
    LET p == cmdOutput(rpc,
               genEnvironment(r.compName, r.modelName, Join3("RPC", module, name)), in, b)
    IN IF Failed(p)
       THEN Returns(p, "", unpackError(p.stderr), unpackError(p.stderr))
       ELSE Returns(p, p.out, NilErr, NilErr)

\* Component.Start: returns an error only; stdout is logged.
Start(c, b) ==
    IF c.start = ""
    THEN Returns(NoProc, "", NilErr, NilErr)
    ELSE LET p == cmdOutput(c.start, genEnvironment(c.name, "", "Start"), NoStdin, b)
         IN IF ~Failed(p)
            THEN Returns(p, "", NilErr, NilErr)
            ELSE Returns(p, "", unpackError(p.stderr), unpackError(p.stderr))

\* Component.Stop: returns an error only; stdout is logged.
Stop(c, b) ==
    IF c.stop = ""
    THEN Returns(NoProc, "", NilErr, NilErr)
    ELSE LET p == cmdOutput(c.stop, genEnvironment(c.name, "", "Stop"), NoStdin, b)
         IN IF ~Failed(p)
            THEN Returns(p, "", NilErr, NilErr)
            ELSE Returns(p, "", unpackError(p.stderr), unpackError(p.stderr))

(***************************************************************************)
(* Package ephemera applied: each action applies one operation to inputs   *)
(* drawn from the sets above and records what it did.                      *)
(***************************************************************************)
daemonVars == <<fs, events, managed, meta, running, registered, mailbox, active,
                last, call, wpc, actions, passStops, ncalls, nwrites>>

\* The record of an operation that may run a command line.
Applied(op, comp, model, module, name, cmdline, in, md, res) ==
    [op |-> op, comp |-> comp, model |-> model, module |-> module, name |-> name,
     cmdline |-> cmdline, in |-> in, metadata |-> md,
     proc |-> res.proc, payload |-> res.payload, err |-> res.err, logged |-> res.logged]

OpConfigGet(c, b) ==
    /\ inv' = Applied("Config/Get", c.compName, c.modelName, "", "", c.get,
                      "", "", configGet(c, b))
    /\ UNCHANGED daemonVars

OpConfigSet(c, in, b) ==
    /\ inv' = Applied("Config/Set", c.compName, c.modelName, "", "", c.set,
                      in, "", configSet(c, in, b))
    /\ UNCHANGED daemonVars

OpConfigCheck(c, in, b) ==
    /\ inv' = Applied("Config/Check", c.compName, c.modelName, "", "", c.check,
                      in, "", configCheck(c, in, b))
    /\ UNCHANGED daemonVars

OpStateGet(c, b) ==
    /\ inv' = Applied("State/Get", c.compName, c.modelName, "", "", c.get,
                      "", "", stateGet(c, b))
    /\ UNCHANGED daemonVars

\* The bus calls an RPC of a model with the call's metadata and payload.
OpRpc(r, module, name, md, in, b) ==
    /\ inv' = Applied("RPC", r.compName, r.modelName, module, name,
                      r.modules[module][name], in, md,
                      genRpc(r, module, name, r.modules[module][name], in, b))
    /\ UNCHANGED daemonVars

OpStart(c, b) ==
    /\ inv' = Applied("Start", c.name, "", "", "", c.start, "", "", Start(c, b))
    /\ UNCHANGED daemonVars

OpStop(c, b) ==
    /\ inv' = Applied("Stop", c.name, "", "", "", c.stop, "", "", Stop(c, b))
    /\ UNCHANGED daemonVars

\* The function component.Run or component.Stop sends, applied to a value of
\* the agent.
OpAgentFn(op, m, isRunning) ==
    /\ \E o \in (IF op = "Run" THEN RunFn(m, isRunning) ELSE StopFn(m, isRunning)) :
          inv' = [op |-> "Agent/" \o op, meta |-> m, was |-> isRunning,
                  scr |-> o.scr, bus |-> o.bus, err |-> o.err, after |-> o.after]
    /\ UNCHANGED daemonVars

(***************************************************************************)
(* Package ephemera: parsing an instance file (New, instantiate).          *)
(***************************************************************************)
\* A nil *config, *state or *rpc.
Nil == [nil |-> TRUE]

\* The keys a [Model ...] section of an instance file may hold, each with
\* its value; a key name is given by its parts between the "/".
ModelKeys ==
    {<< <<"Config", "Get">>, "cmd" >>,
     << <<"Config", "Set">>, "cmd" >>,
     << <<"State", "Get">>, "cmd" >>,
     << <<"RPC", "m1", "x">>, "cmd" >>,
     << <<"RPC", "m1", "y">>, "" >>,
     << <<"RPC", "m1">>, "cmd" >>}

\* The section holding a set of keys: key name -> value.
SectionOf(kvs) ==
    [k \in {p[1] : p \in kvs} |-> (CHOOSE p \in kvs : p[1] = k)[2]]

\* Well-formed instance files: a [Component] section and sections named by
\* their words, of which "Model <name>" ones define models.
InstanceFiles ==
    {[Component |-> comp,
      sections |-> << [name |-> <<"Model", "v1">>, keys |-> SectionOf(kvs)],
                      [name |-> <<"Other">>, keys |-> SectionOf({})] >>] :
        comp \in {[Name |-> "a"], [Name |-> "a", Start |-> "a-start", Stop |-> "a-stop"]},
        kvs \in SUBSET ModelKeys}

\* go-ini's Section.Key(name): the key of that name, and when the section
\* has none, a key it creates with an empty value; never nil.
sectionKey(section, name) ==
    IF name \in DOMAIN section
    THEN [nil |-> FALSE, value |-> section[name]]
    ELSE [nil |-> FALSE, value |-> ""]

\* Key.MustString("").
MustString(key) == key.value

\* strings.HasPrefix(name, prefix + separator), on the parts of a name.
HasPrefix(parts, prefix) == Len(parts) >= 2 /\ parts[1] = prefix

configNew(section) ==
    LET getKey == sectionKey(section, <<"Config", "Get">>)
        setKey == sectionKey(section, <<"Config", "Set">>)
        chkKey == sectionKey(section, <<"Config", "Check">>)
    IN IF getKey.nil /\ setKey.nil /\ chkKey.nil
       THEN Nil
       ELSE [get |-> MustString(getKey), set |-> MustString(setKey),
             check |-> MustString(chkKey)]

stateNew(section) ==
    LET getKey == sectionKey(section, <<"State", "Get">>)
    IN IF getKey.nil THEN Nil ELSE [get |-> MustString(getKey)]

\* rpcNew: the keys RPC/<module>/<name>, grouped by module; nil when none.
rpcNew(section) ==
    LET rpcKeys == {k \in DOMAIN section : HasPrefix(k, "RPC") /\ Len(k) = 3}
        modules == [md \in {k[2] : k \in rpcKeys} |->
                      [nm \in {k[3] : k \in {q \in rpcKeys : q[2] = md}} |->
                          section[<<"RPC", md, nm>>]]]
    IN IF DOMAIN modules = {} THEN Nil ELSE modules

modelNew(name, section) ==
    [name |-> name, config |-> configNew(section), state |-> stateNew(section),
     rpc |-> rpcNew(section)]

\* The loop of instantiate over the first i sections of the file.
RECURSIVE instantiateModels(_, _)
instantiateModels(sections, i) ==
    IF i = 0 THEN <<>>
    ELSE LET models == instantiateModels(sections, i - 1)
             sec == sections[i]
         IN IF ~HasPrefix(sec.name, "Model") THEN models
            ELSE Assoc(models, sec.name[2], modelNew(sec.name[2], sec.keys))

\* Component.instantiate on a file ini.Load accepts.
instantiate(file) ==
    [name |-> MapGet(file.Component, "Name"),
     start |-> MapGet(file.Component, "Start"),
     stop |-> MapGet(file.Component, "Stop"),
     models |-> instantiateModels(file.sections, Len(file.sections))]

\* New(From(file)).
OpNew(file) ==
    /\ inv' = [op |-> "New", file |-> file, comp |-> instantiate(file)]
    /\ UNCHANGED daemonVars

(***************************************************************************)
(* Package ephemera: Equal applied to two Models and to two Components.    *)
(***************************************************************************)
\* ModelX with another State/Get command.
ModelW == [ModelX EXCEPT !.state = [get |-> "st-get"]]
\* ModelX with a second RPC operation whose command line is empty.
ModelV == [ModelX EXCEPT !.rpc = [m |-> [x |-> "", y |-> ""]]]

EqualModels == {ModelX, ModelY, ModelW, ModelV}

\* c.Equal(om) and om.Equal(c) of two Models.
OpModelEqual(c, om) ==
    /\ inv' = [op |-> "Model.Equal", a |-> c, b |-> om,
               res |-> ModelEqual(c, om), rev |-> ModelEqual(om, c)]
    /\ UNCHANGED daemonVars

\* c.Equal(oc) and oc.Equal(c) of two Components.
OpComponentEqual(c, oc) ==
    /\ inv' = [op |-> "Component.Equal", a |-> c, b |-> oc,
               res |-> ComponentEqual(c, oc), rev |-> ComponentEqual(oc, c)]
    /\ UNCHANGED daemonVars

NextOps ==
    \/ \E c \in Configs, b \in Behaviours : OpConfigGet(c, b)
    \/ \E c \in Configs, in \in Payloads, b \in Behaviours : OpConfigSet(c, in, b)
    \/ \E c \in Configs, in \in Payloads, b \in Behaviours : OpConfigCheck(c, in, b)
    \/ \E c \in States, b \in Behaviours : OpStateGet(c, b)
    \/ \E r \in Rpcs, md \in Metadata, in \in Payloads, b \in Behaviours :
          \E module \in DOMAIN r.modules :
             \E name \in DOMAIN r.modules[module] : OpRpc(r, module, name, md, in, b)
    \/ \E file \in InstanceFiles : OpNew(file)
    \/ \E c \in EqualModels, om \in EqualModels : OpModelEqual(c, om)
    \/ \E c \in Metas, oc \in Metas : OpComponentEqual(c, oc)
    \/ \E c \in Metas, b \in Behaviours : OpStart(c, b)
    \/ \E c \in Metas, b \in Behaviours : OpStop(c, b)
    \/ \E op \in {"Run", "Stop"}, m \in Metas, isRunning \in BOOLEAN :
          OpAgentFn(op, m, isRunning)

SpecOps == Init /\ [][NextOps]_vars

(***************************************************************************)
(* Vocabulary of the properties.                                           *)
(***************************************************************************)
Range(seq) == {seq[i] : i \in DOMAIN seq}

\* The RuntimeComponents of a name that are registered with the bus.
RegisteredAs(name) == {c \in Comps : registered[c] /\ meta[c].name = name}

\* The step in which the watcher swaps the snapshot (handleEvent's default case).
IsSwapStep ==
    /\ wpc = "idle"
    /\ events # <<>>
    /\ ~IsChmod(Head(events))
    /\ events' = Tail(events)

\* The step in which syncComponents calls the Stop of its next action.
IsSyncStopStep == wpc = "stop" /\ wpc' = "wait"

\* The RuntimeComponents of a vector of actions.
ActionComps(acts) == {acts[i].comp : i \in DOMAIN acts}

\* The actions of the running pass whose Stop has not been called yet.
PendingActions == IF wpc = "wait" THEN Tail(actions) ELSE actions

\* The names a swap step keeps with a structurally equal meta Component.
UnchangedNames ==
    {n \in (DOMAIN managed) \cap (DOMAIN managed') :
        readAllComponents(fs)[n] = meta[managed[n]]}

\* Old RuntimeComponents of the names the new snapshot lacks, at a swap step.
RemovedComps == {managed[n] : n \in (DOMAIN managed) \ (DOMAIN managed')}

\* Old RuntimeComponents of the names in both snapshots whose meta
\* Components differ structurally, at a swap step.
ChangedComps ==
    {managed[n] : n \in {x \in (DOMAIN managed) \cap (DOMAIN managed') :
                           meta'[managed'[x]] # meta[managed[x]]}}

(***************************************************************************)
(* C1: at every moment at most one RuntimeComponent of a given name is     *)
(* registered with the bus.  The code does not keep this: after a swap     *)
(* that replaced a running component, Activate starts the new one while    *)
(* the old one is still registered.                                        *)
(***************************************************************************)
C1_AtMostOneRegisteredPerName ==
    \A n \in Names : Cardinality(RegisteredAs(n)) <= 1

(***************************************************************************)
(* C2: a reconciliation pass keeps, for every name whose definition is     *)
(* structurally unchanged, the very same RuntimeComponent in the new       *)
(* snapshot, issues no Stop for it, and leaves its running flag and bus    *)
(* registration as they were.                                              *)
(***************************************************************************)
C2_UnchangedComponentsSurvive ==
    /\ [][IsSwapStep =>
            \A n \in UnchangedNames :
                /\ managed'[n] = managed[n]
                /\ managed[n] \notin ActionComps(actions')
                /\ running'[managed[n]] = running[managed[n]]
                /\ registered'[managed[n]] = registered[managed[n]]
                /\ mailbox'[managed[n]] = mailbox[managed[n]]]_vars
    /\ [][IsSyncStopStep =>
            \A n \in DOMAIN managed :
                /\ Head(actions).comp # managed[n]
                /\ running'[managed[n]] = running[managed[n]]
                /\ registered'[managed[n]] = registered[managed[n]]
                /\ mailbox'[managed[n]] = mailbox[managed[n]]]_vars
    /\ [][IsSwapStep /\ UnchangedNames = DOMAIN managed
                     /\ DOMAIN readAllComponents(fs) = DOMAIN managed =>
            /\ managed' = managed
            /\ actions' = <<>>
            /\ wpc' = "idle"
            /\ UNCHANGED compVars]_vars

\* A pass has kept a running, registered component while replacing another.
C2_Witness ==
    /\ wpc = "wait"
    /\ "b" \in DOMAIN managed
    /\ managed["b"] = 2
    /\ running[2]
    /\ registered[2]
    /\ passStops = <<1>>
    /\ "a" \in DOMAIN managed
    /\ managed["a"] = 3

(***************************************************************************)
(* C3: once the new snapshot is installed, the pass tells exactly these    *)
(* RuntimeComponents to Stop: the old one of every name the new snapshot   *)
(* lacks and the old one of every name in both snapshots whose meta        *)
(* Components differ structurally.                                         *)
(***************************************************************************)
C3_StopsExactlyRemovedAndChanged ==
    /\ [][IsSwapStep =>
            /\ ActionComps(actions') = RemovedComps \cup ChangedComps
            /\ passStops' = <<>>]_vars
    /\ [][IsSyncStopStep =>
            /\ passStops' = Append(passStops, Head(actions).comp)
            /\ mailbox'[Head(actions).comp] =
                  Append(mailbox[Head(actions).comp], [from |-> Watcher, op |-> "Stop"])
            /\ actions' = actions]_vars
    /\ [][actions' # actions /\ ~IsSwapStep =>
            /\ actions' = Tail(actions)
            /\ wpc = "wait"
            /\ Head(actions).comp \in Range(passStops)]_vars
    /\ [](\A c \in Comps : \A i \in DOMAIN mailbox[c] :
            mailbox[c][i].from = Watcher => c \in Range(passStops))

\* A pass is stopping both a removed and a changed component.
C3_Witness ==
    /\ wpc = "wait"
    /\ Len(passStops) = 2
    /\ DOMAIN managed = {"a"}
    /\ managed["a"] = 3
    /\ Range(passStops) = {1, 2}

(***************************************************************************)
(* C4: within one reconciliation pass no RuntimeComponent receives two     *)
(* stop actions.                                                           *)
(***************************************************************************)
C4_AtMostOneStopPerPass ==
    LET told == passStops \o [i \in DOMAIN PendingActions |-> PendingActions[i].comp]
    IN \A i, j \in DOMAIN told : i # j => told[i] # told[j]

\* A pass with two stop actions, one called and one still to call.
C4_Witness ==
    /\ wpc = "wait"
    /\ Len(passStops) = 1
    /\ Len(actions) = 2

(***************************************************************************)
(* C5: Start twice in direct succession on a not-running component runs    *)
(* the start script exactly once, the second call being a no-op that       *)
(* returns success; Stop twice runs the stop script at most once, a Stop   *)
(* of a stopped component being a no-op that returns success.              *)
(***************************************************************************)
\* How many processes a script outcome stands for.
Spawned(scr) == IF scr = "none" THEN 0 ELSE 1

NoOp(r) == r.scr = "none" /\ r.bus = "none" /\ r.err = "nil" /\ r.after = r.was

\* The claim as stated: whatever the first call returned.
C5_StartStopIdempotent ==
    \A c \in Comps : \A r \in active[c] :
        /\ (last[c].op = "Run" /\ ~last[c].was /\ r.op = "Run" /\ meta[c].start # "") =>
               /\ Spawned(last[c].scr) + Spawned(r.scr) = 1
               /\ NoOp(r)
        /\ (last[c].op = "Stop" /\ r.op = "Stop") =>
               Spawned(last[c].scr) + Spawned(r.scr) <= 1
        /\ (r.op = "Stop" /\ ~r.was) => NoOp(r)

\* The claim for a first call that returned success.
C5_IdempotentAfterSuccess ==
    \A c \in Comps : \A r \in active[c] :
        /\ (last[c].op = "Run" /\ ~last[c].was /\ last[c].err = "nil"
              /\ r.op = "Run" /\ meta[c].start # "") =>
               /\ Spawned(last[c].scr) + Spawned(r.scr) = 1
               /\ NoOp(r)
        /\ (last[c].op = "Stop" /\ last[c].err = "nil" /\ r.op = "Stop") =>
               /\ Spawned(last[c].scr) + Spawned(r.scr) <= 1
               /\ NoOp(r)
        /\ (r.op = "Run" /\ r.was) => NoOp(r)
        /\ (r.op = "Stop" /\ ~r.was) => NoOp(r)

\* A second Start is being answered right after a first one that succeeded.
C5_Witness ==
    \E c \in Comps : \E r \in active[c] :
        /\ last[c].op = "Run"
        /\ ~last[c].was
        /\ last[c].err = "nil"
        /\ last[c].scr = "ok"
        /\ r.op = "Run"
        /\ r.was

(***************************************************************************)
(* C6: when Start runs on a not-running component and the start script or  *)
(* the bus registration fails, the running flag stays false and the error  *)
(* is returned; the flag becomes true only when both steps succeeded.      *)
(* The code drops the error of the start script.                           *)
(***************************************************************************)
C6_FailedStartStaysStopped ==
    \A c \in Comps : \A r \in active[c] :
        (r.op = "Run" /\ ~r.was) =>
            /\ (r.scr = "fail" \/ r.bus = "fail") => (~r.after /\ r.err # "nil")
            /\ r.after => (r.scr # "fail" /\ r.bus = "ok")

(***************************************************************************)
(* C7: when Stop runs on a running component and the stop script or the    *)
(* bus unregistration fails, the running flag stays true and the error is  *)
(* returned; the flag becomes false only when the stop succeeded.          *)
(* The code drops the error of the stop script.                            *)
(***************************************************************************)
C7_FailedStopStaysRunning ==
    \A c \in Comps : \A r \in active[c] :
        (r.op = "Stop" /\ r.was) =>
            /\ (r.scr = "fail" \/ r.bus = "fail") => (r.after /\ r.err # "nil")
            /\ ~r.after => (r.scr # "fail" /\ r.bus = "ok")

IsLookupStep(k) == ncalls' # ncalls /\ call[k].pc = "idle" /\ call'[k] # call[k]

C9_UnknownNameNotFound ==
    /\ [][\A k \in Clients : IsLookupStep(k) =>
            IF call'[k].name \in DOMAIN managed
            THEN call'[k].pc = "found" /\ call'[k].res = "none"
            ELSE call'[k].pc = "idle" /\ call'[k].res = "notfound"]_vars
    /\ [][ncalls' # ncalls => UNCHANGED <<managed, compVars, passVars>>]_vars
    /\ [](\A k \in Clients : call[k].res = "notfound" => call[k].pc = "idle")

\* A call has been answered not-found while a component was running.
C9_Witness ==
    \E k \in Clients :
        /\ call[k].res = "notfound"
        /\ call[k].name \notin DOMAIN managed
        /\ \E c \in Comps : running[c]

Constructed == (1..Len(meta')) \ Comps

C11_NoAutoStart ==
    /\ [](\A c \in Comps :
            /\ (last[c] = NoReq /\ active[c] = {}) => (~running[c] /\ ~registered[c])
            /\ \A i \in DOMAIN mailbox[c] :
                  mailbox[c][i].from = Watcher => mailbox[c][i].op = "Stop"
            /\ \A r \in active[c] :
                  r.from = Watcher => (r.op = "Stop" /\ (r.after => r.was)))
    /\ [][\A c \in Constructed :
            ~running'[c] /\ ~registered'[c] /\ mailbox'[c] = <<>> /\ active'[c] = {}]_vars
    /\ [][\A c \in Comps :
            /\ (~running[c] /\ running'[c]) =>
                  \E r \in active[c] : r.op = "Run" /\ r.from \in Clients /\ r.bus = "ok"
            /\ (~registered[c] /\ registered'[c]) =>
                  \E r \in active'[c] : r.op = "Run" /\ r.from \in Clients /\ r.bus = "ok"]_vars

\* A pass has stopped the running component of a changed file and has
\* finished; the RuntimeComponent built for the new definition is not running.
C11_Witness ==
    /\ wpc = "idle"
    /\ events = <<>>
    /\ Len(meta) = 3
    /\ "a" \in DOMAIN managed
    /\ managed["a"] = 3
    /\ last[1].from = "watcher"
    /\ last[1].was
    /\ ~running[3]
    /\ ~registered[3]

(***************************************************************************)
(* C12: the registry snapshot is replaced as a whole.  The snapshot        *)
(* changes only in the watcher's Swap, in one step, to a map that has      *)
(* exactly the scanned names, each bound to the old RuntimeComponent of    *)
(* that name or to one constructed by this scan; a lookup reads the        *)
(* snapshot installed at that moment and never changes it.                 *)
(***************************************************************************)
C12_SnapshotReplacedWhole ==
    /\ [][managed' # managed => IsSwapStep]_vars
    /\ [][IsSwapStep =>
            LET scanned == readAllComponents(fs) IN
            /\ DOMAIN managed' = DOMAIN scanned
            /\ \A n \in DOMAIN scanned :
                  /\ meta'[managed'[n]].name = n
                  /\ IF managed'[n] \in Comps
                     THEN n \in DOMAIN managed /\ managed'[n] = managed[n]
                     ELSE managed'[n] \in Constructed /\ meta'[managed'[n]] = scanned[n]]_vars
    /\ [][\A k \in Clients : IsLookupStep(k) =>
            /\ managed' = managed
            /\ call'[k].pc = "found" =>
                  /\ call'[k].name \in DOMAIN managed
                  /\ call'[k].comp = managed[call'[k].name]]_vars
    /\ [](\A n \in DOMAIN managed : managed[n] \in Comps /\ meta[managed[n]].name = n)

\* A call has looked its name up while the pass that replaced the snapshot
\* was still stopping old components, and holds the new RuntimeComponent; the
\* other name is gone from the snapshot.
C12_Witness ==
    \E k \in Clients :
        /\ call[k].pc = "found"
        /\ wpc \in {"stop", "wait"}
        /\ DOMAIN managed = {"a"}
        /\ call[k].name = "a"
        /\ call[k].comp = 3
        /\ managed["a"] = 3

(***************************************************************************)
(* C13: a notification leads to a re-scan and swap if and only if it is    *)
(* not a chmod-only notification, also when it carries the chmod flag on   *)
(* top of a write; a chmod-only notification changes nothing.  The code    *)
(* drops every notification that carries the chmod flag.                   *)
(***************************************************************************)
\* The step in which handleEvent takes the next notification.
IsHandleStep == wpc = "idle" /\ events # <<>> /\ events' = Tail(events)

C13_ReconcileIffNotChmodOnly ==
    [][IsHandleStep =>
         IF Head(events) = ChmodOnly
         THEN UNCHANGED <<managed, compVars, passVars>>
         ELSE LET scanned == readAllComponents(fs) IN
              /\ DOMAIN managed' = DOMAIN scanned
              /\ \A n \in DOMAIN scanned :
                    ComponentEqual(meta'[managed'[n]], scanned[n])]_vars

(***************************************************************************)
(* C14: reconciliation is best-effort.  When a Stop called by a pass       *)
(* returns, with an error or without, the pass goes on to its next action  *)
(* (or ends), the snapshot it installed stays, the pending notifications   *)
(* stay queued, and once the pass has ended the watcher handles them.      *)
(***************************************************************************)
\* The step in which the Stop called by syncComponents returns.
IsSyncReplyStep(id) ==
    /\ \E r \in active[id] : r.from = Watcher
    /\ active'[id] = {}

C14_BestEffortReconciliation ==
    /\ [][\A id \in Comps : IsSyncReplyStep(id) =>
            /\ managed' = managed
            /\ events' = events
            /\ actions' = Tail(actions)
            /\ wpc' = IF Tail(actions) = <<>> THEN "idle" ELSE "stop"
            /\ call' = call]_vars
    /\ [](wpc = "stop" => (actions # <<>> /\ ENABLED syncStop))
    /\ []((wpc = "idle" /\ events # <<>>) => ENABLED (handleEventChmod \/ handleEventSwap))

\* A pass had to stop both components; the Stop of the first failed and left
\* it running, the second was stopped all the same, and a later
\* notification has been reconciled into a further snapshot.
C14_Witness ==
    /\ Len(meta) = 5
    /\ last[2].from = "watcher"
    /\ last[2].err # "nil"
    /\ running[2]
    /\ last[1].from = "watcher"
    /\ DOMAIN managed = {"a", "b"}
    /\ managed["a"] = 4
    /\ managed["b"] = 5

(***************************************************************************)
(* C15: a script that exits nonzero makes the call fail and return no      *)
(* stdout content: Set, Check, an RPC handler, Start and Stop return a     *)
(* non-nil error; Config Get, State Get and the RPC handler return an      *)
(* empty payload whatever the script wrote to stdout.                      *)
(***************************************************************************)
\* The operations that run a command line.
ExecOps == {"Config/Get", "Config/Set", "Config/Check", "State/Get", "RPC", "Start", "Stop"}

C15_NonzeroExitFails ==
    (inv.op \in ExecOps /\ inv.proc.spawned /\ inv.proc.exit = "nonzero") =>
        /\ inv.op \in {"Config/Set", "Config/Check", "RPC", "Start", "Stop"} =>
              inv.err # NilErr
        /\ inv.op \in {"Config/Get", "State/Get"} => inv.logged # NilErr
        /\ inv.payload = ""

\* Config Get ran a script that wrote to stdout and then exited nonzero.
C15_Witness ==
    /\ inv.op = "Config/Get"
    /\ inv.proc.spawned
    /\ inv.proc.exit = "nonzero"
    /\ inv.proc.out = "out"
    /\ inv.payload = ""

(***************************************************************************)
(* C16: every script invocation gets VCI_COMPONENT_NAME = the owning       *)
(* component's name, VCI_MODEL_NAME = the owning model's name (empty for   *)
(* Start and Stop) and EPHEMERA_MESSAGE = the label of the operation       *)
(* invoked (RPC/<module>/<op> for an RPC handler).                         *)
(***************************************************************************)
C16_ScriptEnvironment ==
    (inv.op \in ExecOps /\ inv.proc # NoProc) =>
        /\ inv.proc.env =
              [VCI_COMPONENT_NAME |-> inv.comp,
               VCI_MODEL_NAME |-> IF inv.op \in {"Start", "Stop"} THEN "" ELSE inv.model,
               EPHEMERA_MESSAGE |-> IF inv.op = "RPC"
                                    THEN "RPC/" \o inv.module \o "/" \o inv.name
                                    ELSE inv.op]
        /\ inv.proc.cmd = inv.cmdline

\* An RPC handler of model v2 of component b has run its script.
C16_Witness ==
    /\ inv.op = "RPC"
    /\ inv.proc.spawned
    /\ inv.comp = "b"
    /\ inv.model = "v2"
    /\ inv.proc.env.EPHEMERA_MESSAGE = "RPC/m1/y"

(***************************************************************************)
(* C17: an RPC handler takes the call metadata with the request payload,   *)
(* and the script it runs gets the metadata in VCI_RPC_METADATA on top of  *)
(* the three standard variables and the payload on stdin.  The handler of  *)
(* the code takes the payload only and sets the three variables only.      *)
(***************************************************************************)
C17_RpcMetadataExposed ==
    (inv.op = "RPC" /\ inv.proc.spawned) =>
        /\ inv.proc.stdin = inv.in
        /\ {"VCI_COMPONENT_NAME", "VCI_MODEL_NAME", "EPHEMERA_MESSAGE",
            "VCI_RPC_METADATA"} \subseteq DOMAIN inv.proc.env
        /\ inv.proc.env["VCI_RPC_METADATA"] = inv.metadata

(***************************************************************************)
(* C18: an operation whose command line is empty spawns no process:        *)
(* Config Get and State Get return an empty payload, Set, Check, Start     *)
(* and Stop return success; so the Run and Stop of a RuntimeComponent      *)
(* without start/stop script toggle the running flag by the bus call       *)
(* alone.                                                                  *)
(***************************************************************************)
C18_EmptyCommandNoProcess ==
    /\ (inv.op \in (ExecOps \ {"RPC"}) /\ inv.cmdline = "") =>
          /\ ~inv.proc.spawned
          /\ inv.proc.exit = "notrun"
          /\ inv.payload = ""
          /\ inv.err = NilErr
    /\ (inv.op = "Agent/Run" /\ inv.meta.start = "" /\ ~inv.was) =>
          /\ inv.scr = "none"
          /\ inv.after = (inv.bus = "ok")
          /\ (inv.err = "nil") = (inv.bus = "ok")
    /\ (inv.op = "Agent/Stop" /\ inv.meta.stop = "" /\ inv.was) =>
          /\ inv.scr = "none"
          /\ inv.after = ~(inv.bus = "ok")
          /\ (inv.err = "nil") = (inv.bus = "ok")

\* Config Set was applied with a payload to a config that sets no Set command.
C18_Witness ==
    /\ inv.op = "Config/Set"
    /\ inv.cmdline = ""
    /\ inv.in = "{}"
    /\ inv.err = NilErr
    /\ ~inv.proc.spawned

(***************************************************************************)
(* C19: parsing a well-formed instance file yields the file's name, its    *)
(* models and their command strings, and a Model has a Config only if the  *)
(* section has a Config/* key, a State only if it has the State/Get key,   *)
(* an RPC set only if it has an RPC/<module>/<op> key.  In the code the    *)
(* Config and the State are never absent.                                  *)
(***************************************************************************)
\* The keys of a section that name an RPC: RPC/<module>/<op>.
RpcKeysOf(keys) == {k \in DOMAIN keys : Len(k) = 3 /\ k[1] = "RPC"}

\* The value the file gives a key, "" when it gives none.
ValueOf(keys, k) == IF k \in DOMAIN keys THEN keys[k] ELSE ""

C19_ParsedAsWritten ==
    inv.op = "New" =>
        LET file == inv.file
            comp == inv.comp
            modelSecs == {i \in DOMAIN file.sections :
                             Len(file.sections[i].name) = 2
                             /\ file.sections[i].name[1] = "Model"}
        IN /\ comp.name = file.Component["Name"]
           /\ DOMAIN comp.models = {file.sections[i].name[2] : i \in modelSecs}
           /\ \A i \in modelSecs :
                 LET keys == file.sections[i].keys
                     mdl == comp.models[file.sections[i].name[2]]
                 IN /\ mdl.name = file.sections[i].name[2]
                    /\ IF \E k \in DOMAIN keys : k[1] = "Config"
                       THEN mdl.config = [get |-> ValueOf(keys, <<"Config", "Get">>),
                                          set |-> ValueOf(keys, <<"Config", "Set">>),
                                          check |-> ValueOf(keys, <<"Config", "Check">>)]
                       ELSE mdl.config = Nil
                    /\ IF <<"State", "Get">> \in DOMAIN keys
                       THEN mdl.state = [get |-> keys[<<"State", "Get">>]]
                       ELSE mdl.state = Nil
                    /\ IF RpcKeysOf(keys) = {}
                       THEN mdl.rpc = Nil
                       ELSE /\ mdl.rpc # Nil
                            /\ UNION {{<<"RPC", md, nm>> : nm \in DOMAIN mdl.rpc[md]} :
                                         md \in DOMAIN mdl.rpc} = RpcKeysOf(keys)
                            /\ \A k \in RpcKeysOf(keys) : mdl.rpc[k[2]][k[3]] = keys[k]

(***************************************************************************)
(* C20: Model and Component equality are structural.  Two Models compare   *)
(* equal if and only if they have the same name, the same config and       *)
(* state commands and the same set of RPC (module, operation, command)     *)
(* triples, so that a difference in one command or in one operation name   *)
(* makes them unequal; Component.Equal is reflexive and symmetric.  The    *)
(* code's rpc.Equal takes an operation the other side lacks for one with   *)
(* an empty command line.                                                  *)
(***************************************************************************)
\* The (module, operation, command) triples of an RPC set.
Triples(r) == UNION {{<<md, nm, r[md][nm]>> : nm \in DOMAIN r[md]} : md \in DOMAIN r}

C20_EqualityIsStructural ==
    /\ inv.op = "Model.Equal" =>
          /\ inv.res = (/\ inv.a.name = inv.b.name
                        /\ inv.a.config.get = inv.b.config.get
                        /\ inv.a.config.set = inv.b.config.set
                        /\ inv.a.config.check = inv.b.config.check
                        /\ inv.a.state.get = inv.b.state.get
                        /\ Triples(inv.a.rpc) = Triples(inv.b.rpc))
          /\ inv.res = inv.rev
    /\ inv.op = "Component.Equal" =>
          /\ inv.a = inv.b => inv.res
          /\ inv.res = inv.rev

(***************************************************************************)
(* C21: a failing per-model bus call (Config Get/Set/Check, State Get,     *)
(* RPC) gives its caller the error, so the caller can tell a failed        *)
(* script from one that succeeded with empty output, for the Get           *)
(* operations too.  The code's Get operations return a payload only and    *)
(* log the error.                                                          *)
(***************************************************************************)
\* The operations the bus calls on a model.
ModelOps == {"Config/Get", "Config/Set", "Config/Check", "State/Get", "RPC"}

C21_FailurePropagates ==
    (inv.op \in ModelOps /\ inv.proc # NoProc /\ Failed(inv.proc)) =>
        /\ inv.err # NilErr
        /\ ~(inv.payload = "" /\ inv.err = NilErr)

(***************************************************************************)
(* C22: on a script execution error (nonzero exit or spawn failure) the    *)
(* error is a function of the captured stderr alone: the structured error  *)
(* when stderr decodes as one, else an execution error wrapping the raw    *)
(* stderr text; never nil, also for an empty stderr.                       *)
(***************************************************************************)
\* The operations that return the error of a failed script to their caller.
ErrorOps == {"Config/Set", "Config/Check", "RPC", "Start", "Stop"}

C22_ErrorFromStderr ==
    (inv.op \in ExecOps /\ inv.proc # NoProc /\ Failed(inv.proc)) =>
        LET expected == IF inv.proc.stderr = "mgmt-json"
                        THEN [type |-> "MgmtError", text |-> inv.proc.stderr]
                        ELSE [type |-> "ExecError", text |-> inv.proc.stderr]
        IN /\ inv.logged = expected
           /\ inv.logged # NilErr
           /\ inv.op \in ErrorOps => inv.err = expected

\* Config Set ran a command that could not be spawned: stderr is empty.
C22_Witness ==
    /\ inv.op = "Config/Set"
    /\ inv.proc.exit = "nospawn"
    /\ inv.proc.stderr = ""
    /\ inv.err = [type |-> "ExecError", text |-> ""]

(***************************************************************************)
(* C23: in a directory scan (the initial one or a reconciliation) a file   *)
(* that cannot be read or parsed makes only its component be skipped:      *)
(* every other parsable file still has its entry in the resulting          *)
(* snapshot; in a reconciliation a managed component whose file became     *)
(* unparsable counts as removed and its old RuntimeComponent is told to    *)
(* Stop.                                                                   *)
(***************************************************************************)
\* The files of a directory that ephemera.New parses.
Parsable(dir) == {f \in Files : dir[f] # NoFile /\ dir[f] # BadFile}

\* The names the parsable files of a directory declare.
ParsableNames(dir) == {dir[f].name : f \in Parsable(dir)}

C23_InitialScanSkipsBadFile ==
    [](nwrites = 0 =>
        /\ DOMAIN managed = ParsableNames(fs)
        /\ \A f \in Parsable(fs) : \E n \in DOMAIN managed : meta[managed[n]] = fs[f])

C23_BadFileSkippedOnly ==
    [][IsSwapStep =>
         /\ DOMAIN managed' = ParsableNames(fs)
         /\ \A f \in Parsable(fs) :
               ComponentEqual(meta'[managed'[fs[f].name]],
                              fs[CHOOSE g \in Parsable(fs) :
                                   /\ fs[g].name = fs[f].name
                                   /\ \A h \in Parsable(fs) :
                                        fs[h].name = fs[f].name => h <= g])
         /\ \A n \in (DOMAIN managed) \ ParsableNames(fs) :
               /\ n \notin DOMAIN managed'
               /\ managed[n] \in ActionComps(actions')
               /\ wpc' = "stop"]_vars

C23_ScanSkipsBadFile ==
    /\ C23_InitialScanSkipsBadFile
    /\ C23_BadFileSkippedOnly

\* The file of the managed component "a" became malformed: "b" is still in
\* the snapshot and the pass is about to stop the old "a".
C23_Witness ==
    /\ fs[1] = BadFile
    /\ nwrites > 0
    /\ DOMAIN managed = {"b"}
    /\ wpc = "stop"
    /\ actions # <<>>
    /\ meta[Head(actions).comp].name = "a"

(***************************************************************************)
(* C24: whenever no Activate/Deactivate call and no reconciliation pass is *)
(* in progress and every reconciliation stop has succeeded, each           *)
(* RuntimeComponent whose running flag is true is the entry stored under   *)
(* its name in the current snapshot: nothing runs outside the registry,    *)
(* also when an Activate that read the previous snapshot is processed      *)
(* after the swap.                                                         *)
(***************************************************************************)
\* No dispatcher call and no pass of syncComponents is in progress, and no
\* agent holds or runs a function.
Quiescent ==
    /\ \A k \in Clients : call[k].pc = "idle"
    /\ wpc = "idle"
    /\ \A c \in Comps : mailbox[c] = <<>> /\ active[c] = {}

\* The Stop calls of syncComponents returned no error.
SyncStopsSucceeded ==
    \A c \in Comps : last[c].from = "watcher" => last[c].err = "nil"

C24_RunningOnlyInRegistry ==
    (Quiescent /\ SyncStopsSucceeded) =>
        \A c \in Comps :
            running[c] => /\ meta[c].name \in DOMAIN managed
                          /\ managed[meta[c].name] = c

(***************************************************************************)
(* C25: whenever a component's agent is not in the middle of a Start or    *)
(* Stop, the component's running flag is true exactly when the component   *)
(* is registered with the bus; the flag is changed only by a Start or Stop *)
(* the agent processed, never by reconciliation, snapshot swaps or         *)
(* lookups.                                                                *)
(***************************************************************************)
C25_FlagIsRegistration ==
    \A c \in Comps : active[c] = {} => (running[c] <=> registered[c])

C25_FlagChangedByAgentOnly ==
    [][\A c \in Comps :
          running'[c] # running[c] =>
              \E r \in active[c] :
                  /\ active'[c] = active[c] \ {r}
                  /\ running'[c] = r.after
                  /\ last'[c].op = r.op
                  /\ r.op \in {"Run", "Stop"}
                  /\ managed' = managed]_vars

C25_FlagTracksRegistration ==
    /\ []C25_FlagIsRegistration
    /\ C25_FlagChangedByAgentOnly

\* A component whose registration failed sits idle with its flag false,
\* while another one, created by a reconciliation, runs registered.
C25_Witness ==
    \E c, d \in Comps :
        /\ active[c] = {} /\ active[d] = {}
        /\ last[c].op = "Run" /\ last[c].err = "buserr"
        /\ ~running[c] /\ ~registered[c]
        /\ d > 2
        /\ running[d] /\ registered[d]

(***************************************************************************)
(* C26: in every snapshot each entry's key is the name of the meta         *)
(* Component the entry wraps, so a snapshot holds at most one              *)
(* RuntimeComponent per name even when several instance files declare the  *)
(* same Name (the file scanned last wins), and the migration of an old     *)
(* RuntimeComponent never stores it under another name.                    *)
(***************************************************************************)
\* The last file, in the order of the scan, that declares the name n.
LastFileOf(dir, n) ==
    CHOOSE g \in Parsable(dir) :
        /\ dir[g].name = n
        /\ \A h \in Parsable(dir) : dir[h].name = n => h <= g

C26_KeyIsName ==
    /\ \A n \in DOMAIN managed : meta[managed[n]].name = n
    /\ \A n, k \in DOMAIN managed : managed[n] = managed[k] => n = k

C26_LastFileWins ==
    [][IsSwapStep =>
         \A n \in DOMAIN managed' :
            LET c == managed'[n] IN
            /\ n \in ParsableNames(fs)
            /\ IF c \in Comps
               THEN /\ managed[n] = c
                    /\ ComponentEqual(fs[LastFileOf(fs, n)], meta[c])
               ELSE meta'[c] = fs[LastFileOf(fs, n)]]_vars

C26_OneEntryPerName ==
    /\ []C26_KeyIsName
    /\ C26_LastFileWins

\* Both files declare the name "a"; the snapshot's one entry for "a" wraps
\* what the second file declares.
C26_Witness ==
    /\ fs[1] # NoFile /\ fs[1] # BadFile /\ fs[1].name = "a"
    /\ fs[2] = MetaA3
    /\ fs[1] # fs[2]
    /\ DOMAIN managed = {"a"}
    /\ meta[managed["a"]] = MetaA3

(***************************************************************************)
(* C27: provided every script and every bus register/unregister call       *)
(* terminates, every Start/Stop request posted to a component's agent is   *)
(* eventually processed and its caller receives exactly its own reply, so  *)
(* every Activate/Deactivate call and every reconciliation pass eventually *)
(* completes; the handshake between callers and the agent never deadlocks, *)
(* also with several concurrent callers on one component.                  *)
(***************************************************************************)
\* The reply value component.Run / component.Stop hands to the dispatcher.
ReplyOf(r) == IF r.err = "nil" THEN "ok" ELSE r.err

C27_CallsComplete ==
    \A k \in Clients : (call[k].pc # "idle") ~> (call[k].pc = "idle")

C27_PassCompletes == (wpc # "idle") ~> (wpc = "idle")

C27_OwnReply ==
    [][/\ \A k \in Clients :
            (call[k].pc = "wait" /\ call'[k].pc # "wait") =>
                \E r \in active[call[k].comp] :
                    /\ r.from = k
                    /\ r.op = (IF call[k].op = "Activate" THEN "Run" ELSE "Stop")
                    /\ active'[call[k].comp] = active[call[k].comp] \ {r}
                    /\ call'[k].pc = "idle"
                    /\ call'[k].res = ReplyOf(r)
                    /\ \A j \in Clients \ {k} : call'[j] = call[j]
                    /\ wpc' = wpc
       /\ (wpc = "wait" /\ wpc' # "wait") =>
                \E r \in active[Head(actions).comp] :
                    /\ r.from = Watcher
                    /\ r.op = "Stop"
                    /\ active'[Head(actions).comp] = active[Head(actions).comp] \ {r}
                    /\ call' = call
       /\ \A c \in Comps :
            (active'[c] # active[c] /\ active'[c] = {}) =>
                \E r \in active[c] :
                    IF r.from = Watcher
                    THEN wpc = "wait" /\ Head(actions).comp = c
                    ELSE call[r.from].pc = "wait" /\ call[r.from].comp = c]_vars

C27_HandshakeCompletes ==
    /\ C27_CallsComplete
    /\ C27_PassCompletes
    /\ C27_OwnReply

\* Both clients wait on the same component: the agent runs the function of
\* one of them while the function of the other is still queued.
C27_Witness ==
    \E c \in Comps :
        /\ \A k \in Clients : call[k].pc = "wait" /\ call[k].comp = c
        /\ \E r \in active[c] : r.from \in Clients
        /\ Len(mailbox[c]) = 1
        /\ mailbox[c][1].from \in Clients

=============================================================================
